---- MODULE Spec2Model ----
(***************************************************************************)
(* Model of SimpleBinomialModel.py: the class SimpleBinomialModel, its     *)
(* constructor, its four one-step helpers and run_multiperiod_model.       *)
(*                                                                         *)
(* Numbers are exact rationals <<numerator, denominator>> in lowest terms  *)
(* with a positive denominator.  Python raises ZeroDivisionError on a      *)
(* division by zero; the pair ZDE = <<0, 0>> stands for that raise and is  *)
(* tested by the caller right after every division.                        *)
(***************************************************************************)
EXTENDS Integers, Sequences, FiniteSets

\* ------------------------------------------------------------ bounds
\* Largest number of periods an engine is constructed with.
MaxN == 2
\* Largest number of run_multiperiod_model calls made on one engine.
MaxCalls == 2

\* --------------------------------------------------- exact arithmetic
Abs(x) == IF x < 0 THEN -x ELSE x

RECURSIVE GCD(_, _)
GCD(a, b) == IF b = 0 THEN a ELSE GCD(b, a % b)

\* The value a division by zero leaves: the raise of ZeroDivisionError.
ZDE == <<0, 0>>

Norm(n, d) ==
  LET g == GCD(Abs(n), Abs(d))
      s == IF d < 0 THEN -1 ELSE 1
  IN  <<(s * n) \div g, (s * d) \div g>>

Zero == <<0, 1>>
One == <<1, 1>>

RAdd(a, b) == Norm(a[1] * b[2] + b[1] * a[2], a[2] * b[2])
RSub(a, b) == Norm(a[1] * b[2] - b[1] * a[2], a[2] * b[2])
RMul(a, b) == Norm(a[1] * b[1], a[2] * b[2])
\* Python's a / b: ZeroDivisionError when b is zero.
RDiv(a, b) == IF b[1] = 0 THEN ZDE ELSE Norm(a[1] * b[2], a[2] * b[1])
RLess(a, b) == a[1] * b[2] < b[1] * a[2]
\* Python's max(a, b).
RMax(a, b) == IF RLess(a, b) THEN b ELSE a

\* Python's b ** n for an integer n >= 0 (0 ** 0 is 1).
RECURSIVE RPow(_, _)
RPow(b, n) == IF n <= 0 THEN One ELSE RMul(b, RPow(b, n - 1))

\* ------------------------------------------------------ the engine
\* No engine object: the constructor has not run, or it raised.
None == [S0 |-> ZDE, K |-> ZDE, N |-> 0, u |-> ZDE, d |-> ZDE, r |-> ZDE,
         pi |-> ZDE]

\* calculate_pi: ((1 + r) - d) / (u - d).
calculate_pi(self) ==
  RDiv(RSub(RAdd(One, self.r), self.d), RSub(self.u, self.d))

\* option_price: (pi*Xu + (1 - pi)*Xd) / (1 + r).
option_price(self, Xu, Xd) ==
  RDiv(RAdd(RMul(self.pi, Xu), RMul(RSub(One, self.pi), Xd)),
       RAdd(One, self.r))

\* stock_position: (Xu - Xd) / (S*(u - d)).
stock_position(self, Xu, Xd, S) ==
  RDiv(RSub(Xu, Xd), RMul(S, RSub(self.u, self.d)))

\* bond_position: (u*Xd - d*Xu) / ((u - d)*(1 + r)).
bond_position(self, Xu, Xd, S) ==
  RDiv(RSub(RMul(self.u, Xd), RMul(self.d, Xu)),
       RMul(RSub(self.u, self.d), RAdd(One, self.r)))

\* ------------------------------------------------- name resolution
\* The names bound at module level: the file binds the class and nothing
\* else (no N, S0, option_price, stock_position or bond_position).
ModuleGlobals == {"SimpleBinomialModel"}

\* Python's builtins that the method uses.
Builtins == {"range", "max"}

\* Whether a bare name read inside run_multiperiod_model resolves.  The
\* method has no local of that name, so Python looks in the module's
\* globals and then in the builtins, and raises NameError otherwise.
GlobalDefinedAny(name) == TRUE
GlobalDefined(name) == name \in (ModuleGlobals \cup Builtins)

\* ------------------------------------------------------ the outcomes
\* What one call of run_multiperiod_model leaves: it returned the four
\* lists (ids: the identities of the list objects in the result) or it
\* raised exc at source line `line` after `steps` completed iterations of
\* the while loop.  allocs counts the list objects the call created.
NoCall ==
  [status |-> "none", exc |-> "", line |-> 0, steps |-> 0, S |-> <<>>,
   X |-> <<>>, delta |-> <<>>, eta |-> <<>>, ids |-> {}, allocs |-> 0]

Raised(exc, line, steps) ==
  [status |-> "raised", exc |-> exc, line |-> line, steps |-> steps,
   S |-> <<>>, X |-> <<>>, delta |-> <<>>, eta |-> <<>>, ids |-> {},
   allocs |-> 6 + 4 * (IF line >= 61 THEN steps + 1 ELSE steps)]

Returned(acc, heap) ==
  [status |-> "returned", exc |-> "", line |-> 77, steps |-> acc.steps,
   S |-> acc.S, X |-> acc.X, delta |-> acc.delta, eta |-> acc.eta,
   ids |-> (heap + 1)..(heap + 6 + 4 * acc.steps),
   allocs |-> 6 + 4 * acc.steps]

NoRaise == [exc |-> "", line |-> 0]

\* ------------------------------------------- run_multiperiod_model
\* Lines 52-55, the terminal stock prices: Si = S0 * u**(N-i) * d**i for
\* i in range(N+1); entry k of the sequence is the code's index k-1.
TerminalS(self) ==
  [k \in 1..(self.N + 1) |->
     RMul(RMul(self.S0, RPow(self.u, self.N - (k - 1))),
          RPow(self.d, k - 1))]

\* Line 55, the terminal option values: max(Si - K, 0).
TerminalX(self, ST) ==
  [k \in DOMAIN ST |-> RMax(RSub(ST[k], self.K), Zero)]

\* Lines 64-67 for node i of a layer: the first statement that raises,
\* or NoRaise.
NodeRaise(self, ST, XT, i) ==
  LET s == RDiv(ST[i + 1], self.u)
  IN  IF s = ZDE THEN [exc |-> "ZeroDivisionError", line |-> 64]
      ELSE IF ~GlobalDefined("option_price")
        THEN [exc |-> "NameError", line |-> 65]
      ELSE IF option_price(self, XT[i + 1], XT[i + 2]) = ZDE
        THEN [exc |-> "ZeroDivisionError", line |-> 65]
      ELSE IF ~GlobalDefined("stock_position")
        THEN [exc |-> "NameError", line |-> 66]
      ELSE IF stock_position(self, XT[i + 1], XT[i + 2], s) = ZDE
        THEN [exc |-> "ZeroDivisionError", line |-> 66]
      ELSE IF ~GlobalDefined("bond_position")
        THEN [exc |-> "NameError", line |-> 67]
      ELSE IF bond_position(self, XT[i + 1], XT[i + 2], s) = ZDE
        THEN [exc |-> "ZeroDivisionError", line |-> 67]
      ELSE NoRaise

\* Lines 63-67 for layer t: the raise of the first node, in the order
\* i = 0..t, that raises.
LayerRaise(self, t, ST, XT) ==
  LET bad == {i \in 0..t : NodeRaise(self, ST, XT, i).line # 0}
  IN  IF bad = {} THEN NoRaise
      ELSE NodeRaise(self, ST, XT,
                     CHOOSE i \in bad : \A j \in bad : i <= j)

\* Lines 61-67: the four lists of layer t from the layer below (ST, XT).
Layer(self, t, ST, XT) ==
  [St |-> [k \in 1..(t + 1) |-> RDiv(ST[k], self.u)],
   Xt |-> [k \in 1..(t + 1) |-> option_price(self, XT[k], XT[k + 1])],
   delta_t |-> [k \in 1..(t + 1) |->
                  stock_position(self, XT[k], XT[k + 1],
                                 RDiv(ST[k], self.u))],
   eta_t |-> [k \in 1..(t + 1) |->
                bond_position(self, XT[k], XT[k + 1],
                              RDiv(ST[k], self.u))]]

\* Lines 60-77, the while loop from t down to 0 and the return.
RECURSIVE Backward(_, _, _, _, _, _)
Backward(self, t, ST, XT, acc, heap) ==
  IF t < 0 THEN Returned(acc, heap)
  ELSE
    LET rs == LayerRaise(self, t, ST, XT)
        ly == Layer(self, t, ST, XT)
    IN  IF rs.line # 0 THEN Raised(rs.exc, rs.line, acc.steps)
        ELSE Backward(self, t - 1, ly.St, ly.Xt,
                      [S |-> <<ly.St>> \o acc.S,
                       X |-> <<ly.Xt>> \o acc.X,
                       delta |-> <<ly.delta_t>> \o acc.delta,
                       eta |-> <<ly.eta_t>> \o acc.eta,
                       steps |-> acc.steps + 1],
                      heap)

\* The whole method.  Line 52 reads the bare name N and line 53 the bare
\* name S0; where a bare name resolves, it is read as the instance's
\* attribute of that name.
run_multiperiod_model(self, heap) ==
  IF ~GlobalDefined("N") THEN Raised("NameError", 52, 0)
  ELSE IF self.N + 1 > 0 /\ ~GlobalDefined("S0")
    THEN Raised("NameError", 53, 0)
  ELSE
    LET ST == TerminalS(self)
        XT == TerminalX(self, ST)
    IN  Backward(self, self.N - 1, ST, XT,
                 [S |-> <<ST>>, X |-> <<XT>>, delta |-> <<>>,
                  eta |-> <<>>, steps |-> 0],
                 heap)

\* ---------------------------------------------------- the constructor
\* __init__: stores the six arguments unchecked and then pi; the only
\* raise is calculate_pi's division by u - d.
init(args) ==
  LET p == calculate_pi(args)
  IN  IF p = ZDE
        THEN [status |-> "raised", exc |-> "ZeroDivisionError",
              args |-> args, self |-> None]
        ELSE [status |-> "ok", exc |-> "", args |-> args,
              self |-> [args EXCEPT !.pi = p]]

\* ------------------------------------------------------ the inputs
StockPrices == {<<-1, 1>>, <<0, 1>>, <<2, 1>>, <<100, 1>>}
Strikes == {<<1, 1>>, <<100, 1>>}
Maturities == (-1)..MaxN
Factors == {<<9, 10>>, <<1, 1>>, <<11, 10>>, <<2, 1>>}
Rates == {<<-1, 1>>, <<0, 1>>, <<1, 10>>}

\* ---------------------------------------------------------- state
VARIABLES
  engine,    \* the engine object in use, or None
  ctor,      \* the last constructor call: its arguments and how it ended
  outcome,   \* how the last run_multiperiod_model call on engine ended
  prev,      \* how the call before that one ended
  calls,     \* the number of calls made on engine
  heapTop    \* the number of list objects created so far

vars == <<engine, ctor, outcome, prev, calls, heapTop>>

Init ==
  /\ engine = None
  /\ ctor = [status |-> "none", exc |-> "", args |-> None]
  /\ outcome = NoCall
  /\ prev = NoCall
  /\ calls = 0
  /\ heapTop = 0

\* engine = SimpleBinomialModel(sp, k, n, u, d, r), the program's first
\* statement: a behaviour follows one engine object.
Construct(sp, k, n, u, d, r) ==
  LET c == init([S0 |-> sp, K |-> k, N |-> n, u |-> u, d |-> d, r |-> r,
                 pi |-> ZDE])
  IN  /\ ctor.status = "none"
      /\ ctor' = [status |-> c.status, exc |-> c.exc, args |-> c.args]
      /\ engine' = c.self
      /\ outcome' = NoCall
      /\ prev' = NoCall
      /\ calls' = 0
      /\ heapTop' = 0

\* engine.run_multiperiod_model(): the method assigns no attribute of
\* self.
Run ==
  /\ engine # None
  /\ calls < MaxCalls
  /\ LET o == run_multiperiod_model(engine, heapTop)
     IN  /\ outcome' = o
         /\ heapTop' = heapTop + o.allocs
  /\ prev' = outcome
  /\ calls' = calls + 1
  /\ UNCHANGED <<engine, ctor>>

Next ==
  \/ \E sp \in StockPrices, k \in Strikes, n \in Maturities,
        u \in Factors, d \in Factors, r \in Rates :
       Construct(sp, k, n, u, d, r)
  \/ Run

Spec == Init /\ [][Next]_vars

\* ------------------------------------------------------ the claims
Called == outcome.status # "none"

\* The parameters the specification calls valid.
Valid(e) ==
  /\ e # None
  /\ RLess(Zero, e.S0)
  /\ e.N >= 0
  /\ RLess(e.d, e.u)
  /\ e.r # <<-1, 1>>

\* The parameters the specification has the constructor reject.
Invalid(a) == a.N < 0 \/ ~RLess(Zero, a.S0) \/ ~RLess(a.d, a.u)

\* Entry [t][i] (the code's zero-based indices) of a list of lists.
At(seq, t, i) == seq[t + 1][i + 1]

\* S0 * u^(t-i) * d^i.
Spot(e, t, i) == RMul(RMul(e.S0, RPow(e.u, t - i)), RPow(e.d, i))

\* C1: a call of run_multiperiod_model on an engine with valid parameters
\* ends by returning the four sequences, after exactly N backward steps,
\* and not in an error.
C1_RunReturns ==
  (Valid(engine) /\ Called) =>
    /\ outcome.status = "returned"
    /\ outcome.steps = engine.N

\* C2: on valid parameters every returned sequence is indexed by time step
\* in increasing order with len(result[t]) = t+1; stock prices and option
\* values hold steps 0..N.
C2_Shape ==
  (Valid(engine) /\ Called) =>
    /\ outcome.status = "returned"
    /\ Len(outcome.S) = engine.N + 1
    /\ Len(outcome.X) = engine.N + 1
    /\ \A t \in 0..engine.N :
         Len(outcome.S[t + 1]) = t + 1 /\ Len(outcome.X[t + 1]) = t + 1
    /\ \A t \in 1..Len(outcome.delta) : Len(outcome.delta[t]) = t
    /\ \A t \in 1..Len(outcome.eta) : Len(outcome.eta[t]) = t

\* C3: the constructor ends in InvalidParameterError, and produces no
\* engine, whenever periods < 0, initial_price <= 0 or up <= down.
C3_CtorRejects ==
  (ctor.status # "none" /\ Invalid(ctor.args)) =>
    /\ ctor.status = "raised"
    /\ ctor.exc = "InvalidParameterError"
    /\ engine = None

\* C4: on valid parameters the returned terminal layer is
\* stock_prices[N][i] = S0*u^(N-i)*d^i and
\* option_values[N][i] = max(S0*u^(N-i)*d^i - K, 0) for i in 0..N.
C4_Terminal ==
  (Valid(engine) /\ Called) =>
    /\ outcome.status = "returned"
    /\ \A i \in 0..engine.N :
         /\ At(outcome.S, engine.N, i) = Spot(engine, engine.N, i)
         /\ At(outcome.X, engine.N, i) =
              RMax(RSub(Spot(engine, engine.N, i), engine.K), Zero)

\* C5: replication: at every non-terminal node (t, i) of the result,
\* delta*S[t+1][i] + eta*(1+r) = X[t+1][i] and
\* delta*S[t+1][i+1] + eta*(1+r) = X[t+1][i+1].
C5_Replication ==
  (Valid(engine) /\ Called) =>
    /\ outcome.status = "returned"
    /\ \A t \in 0..(engine.N - 1) : \A i \in 0..t :
         LET dl == At(outcome.delta, t, i)
             bond == RMul(At(outcome.eta, t, i), RAdd(One, engine.r))
         IN  /\ RAdd(RMul(dl, At(outcome.S, t + 1, i)), bond)
                  = At(outcome.X, t + 1, i)
             /\ RAdd(RMul(dl, At(outcome.S, t + 1, i + 1)), bond)
                  = At(outcome.X, t + 1, i + 1)

\* Every time step 0..N has its t+1 stock prices and option values, and
\* every step 0..N-1 its t+1 deltas and etas.
FullyPopulated(o, e) ==
  /\ \A t \in 0..e.N :
       /\ t + 1 <= Len(o.S) /\ Len(o.S[t + 1]) = t + 1
       /\ t + 1 <= Len(o.X) /\ Len(o.X[t + 1]) = t + 1
  /\ \A t \in 0..(e.N - 1) :
       /\ t + 1 <= Len(o.delta) /\ Len(o.delta[t + 1]) = t + 1
       /\ t + 1 <= Len(o.eta) /\ Len(o.eta[t + 1]) = t + 1

\* C6: for any parameters the constructor accepted, a call of
\* run_multiperiod_model either raises before the backward pass (the
\* while loop of lines 59-75) has started, with no backward layer
\* computed, or returns a fully populated result.
C6_EagerFailure ==
  Called =>
    \/ /\ outcome.status = "raised"
       /\ outcome.line < 59
       /\ outcome.steps = 0
    \/ /\ outcome.status = "returned"
       /\ FullyPopulated(outcome, engine)

\* C6, its case: an engine with rate = -1, whose risk-neutral probability
\* is outside [0, 1], has been run and the call has ended in a raise.
C6_Witness ==
  /\ engine # None
  /\ engine.r = <<-1, 1>>
  /\ RLess(engine.pi, Zero) \/ RLess(One, engine.pi)
  /\ outcome.status = "raised"

\* C7: run_multiperiod_model leaves S0, K, N, u, d, r and pi as the
\* constructor stored them, every call on the engine returns a result
\* equal to the call before it, and the lists of one result are objects
\* of no other result (stated for engines with valid parameters).
C7_NoSideEffects ==
  (Valid(engine) /\ Called) =>
    /\ engine = init(ctor.args).self
    /\ outcome.status = "returned"
    /\ prev.status # "none" =>
         /\ prev.status = "returned"
         /\ <<outcome.S, outcome.X, outcome.delta, outcome.eta>>
              = <<prev.S, prev.X, prev.delta, prev.eta>>
         /\ outcome.ids \cap prev.ids = {}

\* C8: with N = 0 and otherwise valid parameters the call returns the
\* one-node lattice: stock_prices = [[S0]], option_values =
\* [[max(S0 - K, 0)]], deltas and etas empty.
C8_Degenerate ==
  (Valid(engine) /\ engine.N = 0 /\ Called) =>
    /\ outcome.status = "returned"
    /\ outcome.S = << <<engine.S0>> >>
    /\ outcome.X = << <<RMax(RSub(engine.S0, engine.K), Zero)>> >>
    /\ outcome.delta = <<>>
    /\ outcome.eta = <<>>

\* The engine of the specification's concrete scenario.
Scenario ==
  /\ engine # None
  /\ engine.S0 = <<100, 1>> /\ engine.K = <<100, 1>> /\ engine.N = 1
  /\ engine.u = <<11, 10>> /\ engine.d = <<9, 10>> /\ engine.r = Zero

\* C9: S0=100, K=100, N=1, u=1.1, d=0.9, r=0 gives pi = 0.5 at
\* construction, and the call returns terminal option values [10, 0],
\* option_values[0][0] = 5, delta[0][0] = 0.5 and eta[0][0] = -45.
C9_Scenario ==
  Scenario =>
    /\ engine.pi = <<1, 2>>
    /\ Called =>
         /\ outcome.status = "returned"
         /\ outcome.X[2] = << <<10, 1>>, <<0, 1>> >>
         /\ At(outcome.X, 0, 0) = <<5, 1>>
         /\ At(outcome.delta, 0, 0) = <<1, 2>>
         /\ At(outcome.eta, 0, 0) = <<-45, 1>>

\* C10: backward step: in the result, for every t in 0..N-1 and i in
\* 0..t, option_values[t][i] = (pi*X[t+1][i] + (1-pi)*X[t+1][i+1])/(1+r)
\* and stock_prices[t][i] = stock_prices[t+1][i]/u = S0*u^(t-i)*d^i.
C10_BackwardStep ==
  (Valid(engine) /\ Called) =>
    /\ outcome.status = "returned"
    /\ \A t \in 0..(engine.N - 1) : \A i \in 0..t :
         /\ At(outcome.X, t, i) =
              RDiv(RAdd(RMul(engine.pi, At(outcome.X, t + 1, i)),
                        RMul(RSub(One, engine.pi),
                             At(outcome.X, t + 1, i + 1))),
                   RAdd(One, engine.r))
         /\ At(outcome.S, t, i) = RDiv(At(outcome.S, t + 1, i), engine.u)
         /\ At(outcome.S, t, i) = Spot(engine, t, i)

====
